---- MODULE Spec2Model ----
(***************************************************************************)
(* dtool `hash` command: the hex codec and input resolver of               *)
(* src/modules/base.rs and the algorithm registry and dispatcher of        *)
(* src/modules/hash.rs.                                                    *)
(*                                                                         *)
(* A Rust String is modelled as a sequence of one-character strings, a     *)
(* Vec<u8> as a sequence of integers in 0..255, Option<T> as a sequence of *)
(* length at most one and Result<T, String> as a record (ok, val, err).    *)
(***************************************************************************)
EXTENDS Integers, Sequences, FiniteSets, TLC

\* ------------------------------------------------------------------ bounds
\* longest enumerated input string
MaxLen == 4
\* longest enumerated byte vector
MaxBytes == 2
\* longest enumerated standard-input stream
MaxStream == 4
\* number of concurrent invocations of hash
NumThreads == 2

\* ------------------------------------------------------ Option and Result
None == <<>>
Some(v) == <<v>>
Ok(v) == [ok |-> TRUE, val |-> v, err |-> ""]
Err(e) == [ok |-> FALSE, val |-> <<>>, err |-> e]

\* ----------------------------------------------------------------- strings
\* str::starts_with
StartsWith(s, p) == Len(s) >= Len(p) /\ SubSeq(s, 1, Len(p)) = p

\* str::trim_start_matches: removes the pattern from the front of the string
\* for as long as the string starts with it
RECURSIVE TrimStartMatches(_, _)
TrimStartMatches(s, p) ==
    IF Len(p) > 0 /\ StartsWith(s, p)
    THEN TrimStartMatches(SubSeq(s, Len(p) + 1, Len(s)), p)
    ELSE s

\* the pattern literal "0x" of base.rs:25 and hash.rs:134
Prefix0x == <<"0", "x">>

\* [String]::join
RECURSIVE Join(_, _)
Join(parts, sep) ==
    IF Len(parts) = 0 THEN <<>>
    ELSE IF Len(parts) = 1 THEN parts[1]
    ELSE parts[1] \o sep \o Join(Tail(parts), sep)

\* --------------------------------------------------------------- hex crate
HEX_CHARS_LOWER ==
    <<"0", "1", "2", "3", "4", "5", "6", "7", "8", "9", "a", "b", "c", "d", "e", "f">>
HexUpperAF == <<"A", "B", "C", "D", "E", "F">>

\* hex::val: the value of one hex digit, either letter case; -1 for any other
\* character (InvalidHexCharacter)
HexDigitVal(c) ==
    IF \E i \in 1..Len(HEX_CHARS_LOWER) : HEX_CHARS_LOWER[i] = c
    THEN (CHOOSE i \in 1..Len(HEX_CHARS_LOWER) : HEX_CHARS_LOWER[i] = c) - 1
    ELSE IF \E i \in 1..Len(HexUpperAF) : HexUpperAF[i] = c
    THEN (CHOOSE i \in 1..Len(HexUpperAF) : HexUpperAF[i] = c) + 9
    ELSE -1

\* hex::decode with the two digits of a byte taken low nibble first
HexDecodeLowFirst(s) ==
    IF Len(s) % 2 # 0 THEN Err("OddLength")
    ELSE IF \E i \in 1..Len(s) : HexDigitVal(s[i]) < 0 THEN Err("InvalidHexCharacter")
    ELSE Ok([k \in 1..(Len(s) \div 2) |->
                HexDigitVal(s[2 * k]) * 16 + HexDigitVal(s[2 * k - 1])])

\* hex::decode: OddLength, then InvalidHexCharacter, else one byte per pair
HexDecode(s) ==
    IF Len(s) % 2 # 0 THEN Err("OddLength")
    ELSE IF \E i \in 1..Len(s) : HexDigitVal(s[i]) < 0 THEN Err("InvalidHexCharacter")
    ELSE Ok([k \in 1..(Len(s) \div 2) |->
                HexDigitVal(s[2 * k - 1]) * 16 + HexDigitVal(s[2 * k])])

\* hex::encode_upper in place of hex::encode
HEX_CHARS_UPPER ==
    <<"0", "1", "2", "3", "4", "5", "6", "7", "8", "9", "A", "B", "C", "D", "E", "F">>
RECURSIVE HexEncodeUpper(_)
HexEncodeUpper(bytes) ==
    IF Len(bytes) = 0 THEN <<>>
    ELSE <<HEX_CHARS_UPPER[(bytes[1] \div 16) + 1], HEX_CHARS_UPPER[(bytes[1] % 16) + 1]>>
         \o HexEncodeUpper(Tail(bytes))

\* hex::encode: two lowercase digits per byte, high nibble first
RECURSIVE HexEncode(_)
HexEncode(bytes) ==
    IF Len(bytes) = 0 THEN <<>>
    ELSE <<HEX_CHARS_LOWER[(bytes[1] \div 16) + 1], HEX_CHARS_LOWER[(bytes[1] % 16) + 1]>>
         \o HexEncode(Tail(bytes))

\* Result::map_err(|_| msg)
MapErr(r, msg) == IF r.ok THEN r ELSE Err(msg)

\* ------------------------------------------------------------ base.rs: Hex
\* impl FromStr for Hex
Hex_from_str(s) == MapErr(HexDecode(TrimStartMatches(s, Prefix0x)), "Invalid hex")

\* impl From<Vec<u8>> for Hex
Hex_from(f) == f

\* Into<String> with the format string "{}" in place of "0x{}"
Hex_into_String_Bare(self) == HexEncode(self)

\* impl Into<String> for Hex
Hex_into_String(self) == <<"0", "x">> \o HexEncode(self)

\* impl Into<Vec<u8>> for Hex
Hex_into_Vec(self) == self

\* --------------------------------------------------- base.rs: input_string
\* a byte of the stream that is not valid UTF-8, or a failing read
BadByte == "BAD"

\* BufRead::read_line: the stream up to and including its first newline
RECURSIVE ReadLine(_)
ReadLine(stream) ==
    IF Len(stream) = 0 THEN <<>>
    ELSE IF stream[1] = "\n" THEN <<"\n">>
    ELSE <<stream[1]>> \o ReadLine(Tail(stream))

\* a line split that drops the "\n" only, as str::split('\n') does
ChompLineKeepCr(buf) ==
    IF Len(buf) > 0 /\ buf[Len(buf)] = "\n" THEN SubSeq(buf, 1, Len(buf) - 1) ELSE buf

\* one item of io::Lines: the line without its "\n", and without the "\r"
\* before that "\n"
ChompLine(buf) ==
    IF Len(buf) > 0 /\ buf[Len(buf)] = "\n"
    THEN LET b == SubSeq(buf, 1, Len(buf) - 1)
         IN IF Len(b) > 0 /\ b[Len(b)] = "\r" THEN SubSeq(b, 1, Len(b) - 1) ELSE b
    ELSE buf

\* io::Lines to the end of the stream
RECURSIVE Lines(_)
Lines(stream) ==
    IF Len(stream) = 0 THEN <<>>
    ELSE LET buf == ReadLine(stream)
         IN <<ChompLine(buf)>> \o Lines(SubSeq(stream, Len(buf) + 1, Len(stream)))

\* stdin().lock().lines().collect::<Result<Vec<String>, io::Error>>()
CollectLines(stream) ==
    IF \E i \in 1..Len(stream) : stream[i] = BadByte
    THEN Err("io::Error")
    ELSE Ok(Lines(stream))

\* pub fn input_string(matches), given what standard input holds
input_string(m, stream) ==
    IF m.INPUT # None
    THEN Ok(m.INPUT[1])
    ELSE LET r == CollectLines(stream)
         IN IF r.ok THEN Ok(Join(r.val, <<"\n">>)) ELSE Err("Invalid input")

\* whether input_string reads standard input
ReadsStdin(m) == m.INPUT = None

\* ------------------------------------------------------- hash.rs: registry
\* static ref RAW_ALGORITHMS : Vec<Algorithm>
RAW_ALGORITHMS ==
  <<
    [name |-> "md5", help |-> "MD5", f |-> "md5"],
    [name |-> "sha1", help |-> "SHA-1", f |-> "sha1"],
    [name |-> "sha2_224", help |-> "SHA-2 224", f |-> "sha2_224"],
    [name |-> "sha2_256", help |-> "SHA-2 256", f |-> "sha2_256"],
    [name |-> "sha2_384", help |-> "SHA-2 384", f |-> "sha2_384"],
    [name |-> "sha2_512", help |-> "SHA-2 512", f |-> "sha2_512"],
    [name |-> "sha2_512_224", help |-> "SHA-2 512 truncate 224", f |-> "sha2_512_224"],
    [name |-> "sha2_512_256", help |-> "SHA-2 512 truncate 256", f |-> "sha2_512_256"],
    [name |-> "sha3_224", help |-> "SHA-3 224", f |-> "sha3_224"],
    [name |-> "sha3_256", help |-> "SHA-3 256", f |-> "sha3_256"],
    [name |-> "sha3_384", help |-> "SHA-3 384", f |-> "sha3_384"],
    [name |-> "sha3_512", help |-> "SHA-3 512", f |-> "sha3_512"],
    [name |-> "sha3_k_224", help |-> "SHA-3 keccak 224", f |-> "sha3_k_224"],
    [name |-> "sha3_k_256", help |-> "SHA-3 keccak 256", f |-> "sha3_k_256"],
    [name |-> "sha3_k_384", help |-> "SHA-3 keccak 384", f |-> "sha3_k_384"],
    [name |-> "sha3_k_512", help |-> "SHA-3 keccak 512", f |-> "sha3_k_512"],
    [name |-> "ripemd_160", help |-> "RIPEMD-160", f |-> "ripemd_160"]
  >>

\* the map keyed by x.help in place of x.name
CollectMapByHelp(seq) ==
    [n \in {seq[i].help : i \in 1..Len(seq)} |->
        seq[CHOOSE i \in 1..Len(seq) :
               /\ seq[i].help = n
               /\ \A j \in 1..Len(seq) : seq[j].help = n => j <= i]]

\* RAW_ALGORITHMS.iter().map(|x|(x.name, x)).collect(): a later entry under a
\* name replaces an earlier one
CollectMap(seq) ==
    [n \in {seq[i].name : i \in 1..Len(seq)} |->
        seq[CHOOSE i \in 1..Len(seq) :
               /\ seq[i].name = n
               /\ \A j \in 1..Len(seq) : seq[j].name = n => j <= i]]

\* static ref ALGORITHMS : HashMap<&str, &Algorithm>
ALGORITHMS == CollectMap(RAW_ALGORITHMS)

\* format!("{}: {}", a.name, a.help)
HelpLine(a) == a.name \o ": " \o a.help

RECURSIVE JoinStr(_, _)
JoinStr(parts, sep) ==
    IF Len(parts) = 0 THEN ""
    ELSE IF Len(parts) = 1 THEN parts[1]
    ELSE parts[1] \o sep \o JoinStr(Tail(parts), sep)

\* static ref ALGORITHM_HELP : String
BuildHelp(seq) ==
    "Hash algorithm\n" \o JoinStr([i \in 1..Len(seq) |-> HelpLine(seq[i])], "\n")

ALGORITHM_HELP == BuildHelp(RAW_ALGORITHMS)

\* a lookup that falls back to the md5 entry when the key is missing
MapGetOrDefault(map, key) ==
    IF key \in DOMAIN map THEN Some(map[key])
    ELSE IF "md5" \in DOMAIN map THEN Some(map["md5"]) ELSE None

\* HashMap::get
MapGet(map, key) == IF key \in DOMAIN map THEN Some(map[key]) ELSE None

\* -------------------------------------------------- hash.rs: digest functions
\* The digests are computed by external crates (md5, ring, sha2, sha3,
\* ripemd160).  Each is a total function from byte vectors to byte vectors of
\* the algorithm's output size.  Its value at the message "abc" is the one the
\* tests of hash.rs assert; elsewhere the model takes a fixed function of the
\* algorithm and the message.
OutputSize(f) ==
    IF f \in {"md5"} THEN 16
    ELSE IF f \in {"sha1", "ripemd_160"} THEN 20
    ELSE IF f \in {"sha2_224", "sha2_512_224", "sha3_224", "sha3_k_224"} THEN 28
    ELSE IF f \in {"sha2_256", "sha2_512_256", "sha3_256", "sha3_k_256"} THEN 32
    ELSE IF f \in {"sha2_384", "sha3_384", "sha3_k_384"} THEN 48
    ELSE 64

DigestOfAbc(f) ==
    IF f = "md5" THEN
      <<144, 1, 80, 152, 60, 210, 79, 176, 214, 150, 63, 125, 40, 225, 127, 114>>
    ELSE IF f = "sha1" THEN
      <<169, 153, 62, 54, 71, 6, 129, 106, 186, 62, 37, 113, 120, 80, 194, 108, 156,
        208, 216, 157>>
    ELSE IF f = "sha2_224" THEN
      <<35, 9, 125, 34, 52, 5, 216, 34, 134, 66, 164, 119, 189, 162, 85, 179, 42, 173,
        188, 228, 189, 160, 179, 247, 227, 108, 157, 167>>
    ELSE IF f = "sha2_256" THEN
      <<186, 120, 22, 191, 143, 1, 207, 234, 65, 65, 64, 222, 93, 174, 34, 35, 176, 3,
        97, 163, 150, 23, 122, 156, 180, 16, 255, 97, 242, 0, 21, 173>>
    ELSE IF f = "sha2_384" THEN
      <<203, 0, 117, 63, 69, 163, 94, 139, 181, 160, 61, 105, 154, 198, 80, 7, 39, 44,
        50, 171, 14, 222, 209, 99, 26, 139, 96, 90, 67, 255, 91, 237, 128, 134, 7, 43,
        161, 231, 204, 35, 88, 186, 236, 161, 52, 200, 37, 167>>
    ELSE IF f = "sha2_512" THEN
      <<221, 175, 53, 161, 147, 97, 122, 186, 204, 65, 115, 73, 174, 32, 65, 49, 18,
        230, 250, 78, 137, 169, 126, 162, 10, 158, 238, 230, 75, 85, 211, 154, 33, 146,
        153, 42, 39, 79, 193, 168, 54, 186, 60, 35, 163, 254, 235, 189, 69, 77, 68, 35,
        100, 60, 232, 14, 42, 154, 201, 79, 165, 76, 164, 159>>
    ELSE IF f = "sha2_512_224" THEN
      <<70, 52, 39, 15, 112, 123, 106, 84, 218, 174, 117, 48, 70, 8, 66, 226, 14, 55,
        237, 38, 92, 238, 233, 164, 62, 137, 36, 170>>
    ELSE IF f = "sha2_512_256" THEN
      <<83, 4, 142, 38, 129, 148, 30, 249, 155, 46, 41, 183, 107, 76, 125, 171, 228,
        194, 208, 198, 52, 252, 109, 70, 224, 226, 241, 49, 7, 231, 175, 35>>
    ELSE IF f = "sha3_224" THEN
      <<230, 66, 130, 76, 63, 140, 242, 74, 208, 146, 52, 238, 125, 60, 118, 111, 201,
        163, 165, 22, 141, 12, 148, 173, 115, 180, 111, 223>>
    ELSE IF f = "sha3_256" THEN
      <<58, 152, 93, 167, 79, 226, 37, 178, 4, 92, 23, 45, 107, 211, 144, 189, 133, 95,
        8, 110, 62, 157, 82, 91, 70, 191, 226, 69, 17, 67, 21, 50>>
    ELSE IF f = "sha3_384" THEN
      <<236, 1, 73, 130, 136, 81, 111, 201, 38, 69, 159, 88, 226, 198, 173, 141, 249,
        180, 115, 203, 15, 192, 140, 37, 150, 218, 124, 240, 228, 155, 228, 178, 152,
        216, 140, 234, 146, 122, 199, 245, 57, 241, 237, 242, 40, 55, 109, 37>>
    ELSE IF f = "sha3_512" THEN
      <<183, 81, 133, 11, 26, 87, 22, 138, 86, 147, 205, 146, 75, 107, 9, 110, 8, 246,
        33, 130, 116, 68, 247, 13, 136, 79, 93, 2, 64, 210, 113, 46, 16, 225, 22, 233,
        25, 42, 243, 201, 26, 126, 197, 118, 71, 227, 147, 64, 87, 52, 11, 76, 244, 8,
        213, 165, 101, 146, 248, 39, 78, 236, 83, 240>>
    ELSE IF f = "sha3_k_224" THEN
      <<195, 4, 17, 118, 133, 6, 235, 225, 194, 135, 27, 30, 226, 232, 125, 56, 223, 52,
        35, 23, 48, 10, 155, 151, 169, 94, 198, 168>>
    ELSE IF f = "sha3_k_256" THEN
      <<78, 3, 101, 122, 234, 69, 169, 79, 199, 212, 123, 168, 38, 200, 214, 103, 192,
        209, 230, 227, 58, 100, 160, 54, 236, 68, 245, 143, 161, 45, 108, 69>>
    ELSE IF f = "sha3_k_384" THEN
      <<247, 223, 17, 101, 240, 51, 51, 123, 224, 152, 231, 210, 136, 173, 106, 47, 116,
        64, 157, 122, 96, 180, 156, 54, 100, 34, 24, 222, 22, 27, 31, 153, 248, 198,
        129, 228, 175, 175, 49, 163, 77, 178, 159, 183, 99, 227, 194, 142>>
    ELSE IF f = "sha3_k_512" THEN
      <<24, 88, 125, 194, 234, 16, 107, 154, 21, 99, 227, 43, 51, 18, 66, 28, 161, 100,
        199, 241, 240, 123, 201, 34, 169, 200, 61, 119, 206, 163, 161, 229, 208, 198,
        153, 16, 115, 144, 37, 55, 45, 193, 74, 201, 100, 38, 41, 55, 149, 64, 193, 126,
        42, 101, 177, 157, 119, 170, 81, 26, 157, 0, 187, 150>>
    ELSE IF f = "ripemd_160" THEN
      <<142, 178, 8, 247, 224, 93, 152, 122, 155, 4, 74, 142, 152, 198, 176, 135, 241,
        90, 11, 252>>
    ELSE <<>>

MessageAbc == <<97, 98, 99>>

AlgorithmSeed(f) == CHOOSE i \in 1..Len(RAW_ALGORITHMS) : RAW_ALGORITHMS[i].f = f

RECURSIVE WeightedSum(_, _)
WeightedSum(data, k) ==
    IF Len(data) = 0 THEN 0 ELSE k * (data[1] + 1) + WeightedSum(Tail(data), k + 2)

\* (a.f)(input): md5, sha1, sha2_224, ..., ripemd_160
CallDigest(f, data) ==
    IF data = MessageAbc THEN Ok(DigestOfAbc(f))
    ELSE Ok([i \in 1..OutputSize(f) |->
                (37 * AlgorithmSeed(f) + 11 * i + WeightedSum(data, 1) + 5 * Len(data)) % 256])

\* ----------------------------------------------------------- hash.rs: hash
\* ArgMatches::value_of
value_of(m, key) == IF key = "a" THEN m.a ELSE m.INPUT

\* fn hash(matches), given what standard input holds and the registry map:
\* what it returns (ret) and the digest function it invoked, if any (called)
hash_run(m, stream, map) ==
    LET r1 == input_string(m, stream) IN
    IF ~r1.ok THEN [ret |-> Err(r1.err), called |-> None] ELSE
    LET input == TrimStartMatches(r1.val, Prefix0x)
        r2 == MapErr(HexDecode(input), "Convert failed") IN
    IF ~r2.ok THEN [ret |-> Err(r2.err), called |-> None] ELSE
    LET a_name == value_of(m, "a") IN
    IF a_name = None THEN [ret |-> Err("Invalid algorithm"), called |-> None] ELSE
    LET got == MapGet(map, a_name[1]) IN
    IF got = None THEN [ret |-> Err("Invalid algorithm"), called |-> None] ELSE
    LET r3 == CallDigest(got[1].f, r2.val) IN
    IF ~r3.ok THEN [ret |-> Err(r3.err), called |-> Some(got[1].f)] ELSE
    [ret |-> Ok(<<<<"0", "x">> \o HexEncode(r3.val)>>), called |-> Some(got[1].f)]

hash(m, stream) == hash_run(m, stream, ALGORITHMS).ret

\* whether hash reaches the registry lookup of line 140
ReachesLookup(m, stream) ==
    LET r1 == input_string(m, stream) IN
    /\ r1.ok
    /\ HexDecode(TrimStartMatches(r1.val, Prefix0x)).ok
    /\ value_of(m, "a") # None

\* ------------------------------------------------------------ input domains
Chars == {"0", "x", "X", "a", "F", "g"}

StringsUpTo(n) == UNION {[1..k -> Chars] : k \in 0..n}

\* the inputs of the tests of hash.rs and of the usage examples, beyond MaxLen
SampleInputs ==
    { <<"0", "x", "6", "1", "6", "2", "6", "3">>,
      <<"6", "1", "6", "2", "6", "3">>,
      <<"0", "x", "0", "0">>,
      <<"0", "X", "6", "1">>,
      <<"0", "x", "0", "x", "6", "1">>,
      <<"n", "o", "t", "_", "h", "e", "x">> }

InputStrings == StringsUpTo(MaxLen) \cup SampleInputs

RegisteredNames == {RAW_ALGORITHMS[i].name : i \in 1..Len(RAW_ALGORITHMS)}

UnregisteredNames == {"unknown_algo", "MD5", ""}

FlagValues == {None} \cup {Some(n) : n \in RegisteredNames \cup UnregisteredNames}

ByteValues == {0, 10, 97, 171, 255}

ByteVectors ==
    UNION {[1..k -> ByteValues] : k \in 0..MaxBytes} \cup {<<b>> : b \in 0..255}

StreamChars == {"6", "\n", "\r", BadByte}

Streams == UNION {[1..k -> StreamChars] : k \in 0..MaxStream}

\* what standard input holds when hash is run without INPUT
HashStreams ==
    { <<>>,
      <<"0", "x", "6", "1", "\n">>,
      <<"0", "x", "\n", "6", "1">>,
      <<"6", "1", "\r", "\n", "6", "2", "\n">>,
      <<"6", "1", BadByte>> }

\* ------------------------------------------------------------------- state
VARIABLES
    scenario,     \* which entry point the process runs
    matches,      \* the ArgMatches: [a, INPUT], each an Option
    stdin,        \* what standard input holds
    stdinRead,    \* whether standard input has been read
    text,         \* the argument of Hex::from_str
    data,         \* the argument of Hex::from
    ret,          \* Option of the Result hash or input_string returned
    called,       \* Option of the digest function hash invoked
    hexSelf,      \* Option of the live Hex value
    hexStr,       \* Option of the String a Hex was turned into
    hexVec,       \* Option of the Vec<u8> a Hex was turned into
    hexParsed,    \* Option of the Result of Hex::from_str
    parsedFrom,   \* "none", "text" (the argument) or "encoded" (hexStr)
    rawOnce,      \* lazy_static cell of RAW_ALGORITHMS: "uninit", "running", "done"
    raw,          \* its value
    algOnce,      \* lazy_static cell of ALGORITHMS
    algorithms,   \* its value
    helpOnce,     \* lazy_static cell of ALGORITHM_HELP
    help,         \* its value
    pc,           \* per thread: the line hash is at
    targs,        \* per thread: its ArgMatches
    tlocal,       \* per thread: the locals input (String, then Vec<u8>) and a (&Algorithm)
    tresult       \* per thread: Option of the Result hash returned

seqVars == <<scenario, matches, stdin, stdinRead, text, data, ret, called,
             hexSelf, hexStr, hexVec, hexParsed, parsedFrom>>
regVars == <<rawOnce, raw, algOnce, algorithms, helpOnce, help>>
thrVars == <<pc, targs, tlocal, tresult>>
vars == <<seqVars, regVars, thrVars>>

Threads == 1..NumThreads

NoMatches == [a |-> None, INPUT |-> None]
NoLocal == [input |-> <<>>, a |-> None, back |-> ""]

\* the lazy statics before their first dereference
RegInit ==
    /\ rawOnce = "uninit" /\ raw = <<>>
    /\ algOnce = "uninit" /\ algorithms = <<>>
    /\ helpOnce = "uninit" /\ help = ""

ThreadsIdle ==
    /\ pc = [t \in Threads |-> "idle"]
    /\ targs = [t \in Threads |-> NoMatches]
    /\ tlocal = [t \in Threads |-> NoLocal]
    /\ tresult = [t \in Threads |-> None]

SeqIdle ==
    /\ ret = None /\ called = None /\ stdinRead = FALSE
    /\ hexSelf = None /\ hexStr = None /\ hexVec = None
    /\ hexParsed = None /\ parsedFrom = "none"

\* ------------------------------------------- one process, one entry point
InitHash ==
    /\ scenario = "hash"
    /\ \/ /\ matches \in [a : FlagValues, INPUT : {Some(s) : s \in InputStrings}]
          /\ stdin = <<>>
       \/ /\ matches \in [a : FlagValues, INPUT : {None}]
          /\ stdin \in HashStreams
    /\ text = <<>> /\ data = <<>>

InitInput ==
    /\ scenario = "input_string"
    /\ matches \in [a : {Some("md5")}, INPUT : {None} \cup {Some(s) : s \in SampleInputs}]
    /\ stdin \in Streams
    /\ text = <<>> /\ data = <<>>

InitFromStr ==
    /\ scenario = "from_str"
    /\ matches = NoMatches /\ stdin = <<>>
    /\ text \in InputStrings /\ data = <<>>

InitEncode ==
    /\ scenario = "encode"
    /\ matches = NoMatches /\ stdin = <<>>
    /\ text = <<>> /\ data \in ByteVectors

Init ==
    /\ InitHash \/ InitInput \/ InitFromStr \/ InitEncode
    /\ SeqIdle /\ RegInit /\ ThreadsIdle

\* first dereference of a lazy static runs its initializer, later ones read it
DerefRaw(once, value) == IF once = "done" THEN value ELSE RAW_ALGORITHMS
DerefAlgorithms(once, value, rawValue) ==
    IF once = "done" THEN value ELSE CollectMap(rawValue)
DerefHelp(once, value, rawValue) ==
    IF once = "done" THEN value ELSE BuildHelp(rawValue)

\* commands(): builds the clap App, whose -a help is &ALGORITHM_HELP
Commands ==
    /\ scenario = "hash" /\ ret = None /\ helpOnce # "done"
    /\ raw' = DerefRaw(rawOnce, raw) /\ rawOnce' = "done"
    /\ help' = DerefHelp(helpOnce, help, raw') /\ helpOnce' = "done"
    /\ UNCHANGED <<algOnce, algorithms, seqVars, thrVars>>

\* hash(matches), run to its return
Hash ==
    /\ scenario = "hash" /\ ret = None
    /\ IF ReachesLookup(matches, stdin)
       THEN /\ raw' = DerefRaw(rawOnce, raw) /\ rawOnce' = "done"
            /\ algorithms' = DerefAlgorithms(algOnce, algorithms, raw')
            /\ algOnce' = "done"
       ELSE UNCHANGED <<rawOnce, raw, algOnce, algorithms>>
    /\ LET run == hash_run(matches, stdin, algorithms')
       IN ret' = Some(run.ret) /\ called' = run.called
    /\ stdinRead' = ReadsStdin(matches)
    /\ UNCHANGED <<scenario, matches, stdin, text, data, hexSelf, hexStr, hexVec,
                   hexParsed, parsedFrom, helpOnce, help, thrVars>>

\* base::input_string(matches), run to its return
InputString ==
    /\ scenario = "input_string" /\ ret = None
    /\ ret' = Some(input_string(matches, stdin))
    /\ stdinRead' = ReadsStdin(matches)
    /\ UNCHANGED <<called, scenario, matches, stdin, text, data, hexSelf, hexStr, hexVec,
                   hexParsed, parsedFrom, regVars, thrVars>>

\* text.parse::<Hex>()
HexFromStr ==
    /\ scenario = "from_str" /\ hexParsed = None
    /\ hexParsed' = Some(Hex_from_str(text))
    /\ parsedFrom' = "text"
    /\ UNCHANGED <<scenario, matches, stdin, stdinRead, text, data, ret, called,
                   hexSelf, hexStr, hexVec, regVars, thrVars>>

\* Hex::from(data)
HexFrom ==
    /\ scenario = "encode" /\ hexSelf = None /\ hexStr = None /\ hexVec = None
    /\ hexSelf' = Some(Hex_from(data))
    /\ UNCHANGED <<scenario, matches, stdin, stdinRead, text, data, ret, called,
                   hexStr, hexVec, hexParsed, parsedFrom, regVars, thrVars>>

\* let s: String = hex.into(), which consumes the Hex
HexIntoString ==
    /\ hexSelf # None /\ hexStr = None
    /\ hexStr' = Some(Hex_into_String(hexSelf[1]))
    /\ hexSelf' = None
    /\ UNCHANGED <<scenario, matches, stdin, stdinRead, text, data, ret, called,
                   hexVec, hexParsed, parsedFrom, regVars, thrVars>>

\* let v: Vec<u8> = hex.into(), which consumes the Hex
HexIntoVec ==
    /\ hexSelf # None
    /\ hexVec' = Some(Hex_into_Vec(hexSelf[1]))
    /\ hexSelf' = None
    /\ UNCHANGED <<scenario, matches, stdin, stdinRead, text, data, ret, called,
                   hexStr, hexParsed, parsedFrom, regVars, thrVars>>

\* s.parse::<Hex>() of the String a Hex was turned into
HexReparse ==
    /\ hexStr # None /\ hexParsed = None
    /\ hexParsed' = Some(Hex_from_str(hexStr[1]))
    /\ parsedFrom' = "encoded"
    /\ hexSelf' = IF hexParsed'[1].ok THEN Some(hexParsed'[1].val) ELSE None
    /\ UNCHANGED <<scenario, matches, stdin, stdinRead, text, data, ret, called,
                   hexStr, hexVec, regVars, thrVars>>

Next ==
    \/ Commands
    \/ Hash
    \/ InputString
    \/ HexFromStr
    \/ HexFrom
    \/ HexIntoString
    \/ HexIntoVec
    \/ HexReparse

Spec == Init /\ [][Next]_vars

\* --------------------------------- concurrent invocations in one process
\* the ArgMatches the threads call hash with
ThreadMatches ==
    { [a |-> Some("md5"), INPUT |-> Some(<<"0", "x", "6", "1", "6", "2", "6", "3">>)],
      [a |-> Some("sha1"), INPUT |-> Some(<<>>)],
      [a |-> Some("unknown_algo"), INPUT |-> Some(<<"0", "x", "0", "0">>)],
      [a |-> Some("md5"), INPUT |-> Some(<<"n", "o", "t", "_", "h", "e", "x">>)],
      [a |-> None, INPUT |-> Some(<<"0", "x">>)] }

InitThreads ==
    /\ scenario = "threads"
    /\ matches = NoMatches /\ stdin = <<>> /\ text = <<>> /\ data = <<>>
    /\ SeqIdle /\ RegInit /\ ThreadsIdle

\* a cell whose readers do not wait for a running initializer
OnceStarted(once) == once # "uninit"

\* std::sync::Once behind lazy_static: the value is read only once the
\* initializer has completed; a thread that finds it running waits
OnceCompleted(once) == once = "done"

Goto(t, label) == pc' = [pc EXCEPT ![t] = label]

Return(t, r) ==
    /\ tresult' = [tresult EXCEPT ![t] = Some(r)]
    /\ Goto(t, "done")

\* a thread calls commands(): line 118 dereferences ALGORITHM_HELP
CallCommands(t) ==
    /\ scenario = "threads" /\ pc[t] = "idle"
    /\ Goto(t, "l118")
    /\ UNCHANGED <<seqVars, regVars, targs, tlocal, tresult>>

\* line 118, &ALGORITHM_HELP: read it, or become its initializer
DerefHelpStep(t) ==
    /\ pc[t] = "l118"
    /\ IF OnceCompleted(helpOnce)
       THEN /\ Goto(t, "idle")
            /\ UNCHANGED helpOnce
       ELSE /\ helpOnce = "uninit"
            /\ helpOnce' = "running"
            /\ Goto(t, "l106")
    /\ UNCHANGED <<seqVars, rawOnce, raw, algOnce, algorithms, help, targs, tlocal, tresult>>

\* lines 106-108, the initializer of ALGORITHM_HELP: dereferences
\* RAW_ALGORITHMS, then stores the text
InitHelpStep(t) ==
    /\ pc[t] = "l106"
    /\ IF OnceCompleted(rawOnce)
       THEN /\ help' = BuildHelp(raw)
            /\ helpOnce' = "done"
            /\ Goto(t, "l118")
            /\ UNCHANGED <<rawOnce, tlocal>>
       ELSE /\ rawOnce = "uninit"
            /\ rawOnce' = "running"
            /\ tlocal' = [tlocal EXCEPT ![t].back = "l106"]
            /\ Goto(t, "l16")
            /\ UNCHANGED <<help, helpOnce>>
    /\ UNCHANGED <<seqVars, raw, algOnce, algorithms, targs, tresult>>

\* lines 16-102, the initializer of RAW_ALGORITHMS
InitRawStep(t) ==
    /\ pc[t] = "l16"
    /\ raw' = RAW_ALGORITHMS
    /\ rawOnce' = "done"
    /\ Goto(t, tlocal[t].back)
    /\ UNCHANGED <<seqVars, algOnce, algorithms, helpOnce, help, targs, tlocal, tresult>>

\* a thread calls hash(matches)
CallHash(t, m) ==
    /\ scenario = "threads" /\ pc[t] = "idle"
    /\ targs' = [targs EXCEPT ![t] = m]
    /\ Goto(t, "l132")
    /\ UNCHANGED <<seqVars, regVars, tlocal, tresult>>

\* lines 132-136: resolve the input, trim the prefix, decode
DecodeStep(t) ==
    /\ pc[t] = "l132"
    /\ LET r1 == input_string(targs[t], stdin)
           r2 == MapErr(HexDecode(TrimStartMatches(r1.val, Prefix0x)), "Convert failed")
       IN IF ~r1.ok THEN Return(t, Err(r1.err)) /\ UNCHANGED tlocal
          ELSE IF ~r2.ok THEN Return(t, Err(r2.err)) /\ UNCHANGED tlocal
          ELSE /\ tlocal' = [tlocal EXCEPT ![t].input = r2.val]
               /\ Goto(t, "l138")
               /\ UNCHANGED tresult
    /\ UNCHANGED <<seqVars, regVars, targs>>

\* line 138: the -a flag
FlagStep(t) ==
    /\ pc[t] = "l138"
    /\ IF value_of(targs[t], "a") = None
       THEN Return(t, Err("Invalid algorithm"))
       ELSE Goto(t, "l140") /\ UNCHANGED tresult
    /\ UNCHANGED <<seqVars, regVars, targs, tlocal>>

\* line 140, ALGORITHMS.get(a_name): read the map, or become its initializer
LookupStep(t) ==
    /\ pc[t] = "l140"
    /\ IF OnceCompleted(algOnce)
       THEN LET got == MapGet(algorithms, value_of(targs[t], "a")[1])
            IN /\ IF got = None
                  THEN Return(t, Err("Invalid algorithm")) /\ UNCHANGED tlocal
                  ELSE /\ tlocal' = [tlocal EXCEPT ![t].a = got]
                       /\ Goto(t, "l141")
                       /\ UNCHANGED tresult
               /\ UNCHANGED algOnce
       ELSE /\ algOnce = "uninit"
            /\ algOnce' = "running"
            /\ Goto(t, "l104")
            /\ UNCHANGED <<tlocal, tresult>>
    /\ UNCHANGED <<seqVars, rawOnce, raw, algorithms, helpOnce, help, targs>>

\* line 104, the initializer of ALGORITHMS: dereferences RAW_ALGORITHMS,
\* then stores the collected map
InitAlgorithmsStep(t) ==
    /\ pc[t] = "l104"
    /\ IF OnceCompleted(rawOnce)
       THEN /\ algorithms' = CollectMap(raw)
            /\ algOnce' = "done"
            /\ Goto(t, "l140")
            /\ UNCHANGED <<rawOnce, tlocal>>
       ELSE /\ rawOnce = "uninit"
            /\ rawOnce' = "running"
            /\ tlocal' = [tlocal EXCEPT ![t].back = "l104"]
            /\ Goto(t, "l16")
            /\ UNCHANGED <<algorithms, algOnce>>
    /\ UNCHANGED <<seqVars, raw, helpOnce, help, targs, tresult>>

\* line 141: (a.f)(input)?
DigestStep(t) ==
    /\ pc[t] = "l141"
    /\ LET r3 == CallDigest(tlocal[t].a[1].f, tlocal[t].input)
       IN IF ~r3.ok THEN Return(t, Err(r3.err)) /\ UNCHANGED tlocal
          ELSE /\ tlocal' = [tlocal EXCEPT ![t].input = r3.val]
               /\ Goto(t, "l145")
               /\ UNCHANGED tresult
    /\ UNCHANGED <<seqVars, regVars, targs>>

\* lines 145-148: encode and return
EncodeStep(t) ==
    /\ pc[t] = "l145"
    /\ Return(t, Ok(<<<<"0", "x">> \o HexEncode(tlocal[t].input)>>))
    /\ UNCHANGED <<seqVars, regVars, targs, tlocal>>

ThreadNext ==
    \E t \in Threads :
        \/ CallCommands(t)
        \/ DerefHelpStep(t)
        \/ InitHelpStep(t)
        \/ InitRawStep(t)
        \/ \E m \in ThreadMatches : CallHash(t, m)
        \/ DecodeStep(t)
        \/ FlagStep(t)
        \/ LookupStep(t)
        \/ InitAlgorithmsStep(t)
        \/ DigestStep(t)
        \/ EncodeStep(t)

ThreadSpec == InitThreads /\ [][ThreadNext]_vars

\* ================================================================== claims
\* The vocabulary of the statements, written without the operators above.
LowerHexDigits ==
    {"0", "1", "2", "3", "4", "5", "6", "7", "8", "9", "a", "b", "c", "d", "e", "f"}
HexDigits == LowerHexDigits \cup {"A", "B", "C", "D", "E", "F"}

NibbleOf ==
    ("0" :> 0) @@ ("1" :> 1) @@ ("2" :> 2) @@ ("3" :> 3) @@ ("4" :> 4) @@ ("5" :> 5)
    @@ ("6" :> 6) @@ ("7" :> 7) @@ ("8" :> 8) @@ ("9" :> 9) @@ ("a" :> 10) @@ ("b"
    :> 11) @@ ("c" :> 12) @@ ("d" :> 13) @@ ("e" :> 14) @@ ("f" :> 15) @@ ("A" :>
    10) @@ ("B" :> 11) @@ ("C" :> 12) @@ ("D" :> 13) @@ ("E" :> 14) @@ ("F" :> 15)

\* s is valid hex: an even number of hex digits
ValidHex(s) == Len(s) % 2 = 0 /\ \A i \in 1..Len(s) : s[i] \in HexDigits

\* the bytes a valid hex string denotes
BytesOf(s) ==
    [k \in 1..(Len(s) \div 2) |-> NibbleOf[s[2 * k - 1]] * 16 + NibbleOf[s[2 * k]]]

\* s is the lowercase hex encoding of bytes
IsLowerHexOf(s, bytes) ==
    /\ Len(s) = 2 * Len(bytes)
    /\ \A i \in 1..Len(s) : s[i] \in LowerHexDigits
    /\ \A k \in 1..Len(bytes) :
          NibbleOf[s[2 * k - 1]] * 16 + NibbleOf[s[2 * k]] = bytes[k]

\* s is "0x" followed by the lowercase hex encoding of bytes
IsPrefixedHexOf(s, bytes) ==
    /\ Len(s) = 2 + 2 * Len(bytes)
    /\ SubSeq(s, 1, 2) = <<"0", "x">>
    /\ IsLowerHexOf(SubSeq(s, 3, Len(s)), bytes)

\* s without one leading "0x", if it has one
StripOnePrefix(s) ==
    IF Len(s) >= 2 /\ s[1] = "0" /\ s[2] = "x" THEN SubSeq(s, 3, Len(s)) ELSE s

\* s without one leading "0x" or "0X", if it has one
StripOnePrefixAnyCase(s) ==
    IF Len(s) >= 2 /\ s[1] = "0" /\ s[2] \in {"x", "X"} THEN SubSeq(s, 3, Len(s)) ELSE s

IsRegistered(n) == \E i \in 1..Len(RAW_ALGORITHMS) : RAW_ALGORITHMS[i].name = n

\* digest_n: the digest function registered under n, applied to bytes
DigestNamed(n, bytes) ==
    LET i == CHOOSE j \in 1..Len(RAW_ALGORITHMS) : RAW_ALGORITHMS[j].name = n
    IN CallDigest(RAW_ALGORITHMS[i].f, bytes).val

HashReturned == scenario = "hash" /\ ret # None

\* ---------------------------------------------------------------------- C1
\* the digest the test test_hash_md5 expects for 0x616263
Md5OfAbc ==
    <<"0", "x", "9", "0", "0", "1", "5", "0", "9", "8", "3", "c", "d", "2", "4", "f",
        "b", "0", "d", "6", "9", "6", "3", "f", "7", "d", "2", "8", "e", "1", "7", "f", "7",
        "2">>

\* C1: for a registered algorithm name and an INPUT that is valid hex once
\* its leading 0x prefix is removed (the empty message "0x" included), hash
\* returns Ok with exactly one element, "0x" followed by the lowercase hex of
\* the digest registered under that name applied to the decoded bytes; md5 of
\* 0x616263 is 0x900150983cd24fb0d6963f7d28e17f72.
C1_HashOfValidHex ==
    (/\ HashReturned
     /\ matches.INPUT # None
     /\ matches.a # None
     /\ IsRegistered(matches.a[1])
     /\ ValidHex(StripOnePrefix(matches.INPUT[1])))
    => /\ ret[1].ok
       /\ Len(ret[1].val) = 1
       /\ IsPrefixedHexOf(ret[1].val[1],
             DigestNamed(matches.a[1], BytesOf(StripOnePrefix(matches.INPUT[1]))))
       /\ (/\ matches.a[1] = "md5"
           /\ matches.INPUT[1] = <<"0", "x", "6", "1", "6", "2", "6", "3">>)
          => ret[1].val = <<Md5OfAbc>>

C1_Witness ==
    /\ HashReturned
    /\ matches = [a |-> Some("md5"), INPUT |-> Some(<<"0", "x", "6", "1", "6", "2", "6", "3">>)]
    /\ ret[1] = Ok(<<Md5OfAbc>>)

\* ---------------------------------------------------------------------- C2
\* C2: for an INPUT that is not valid hex once its leading 0x prefix is
\* removed, hash returns the error "Convert failed" and no output, whatever
\* the -a flag is.
C2_ConvertFailedFirst ==
    (/\ HashReturned
     /\ matches.INPUT # None
     /\ ~ValidHex(StripOnePrefix(matches.INPUT[1])))
    => ret[1] = Err("Convert failed")

\* ---------------------------------------------------------------------- C3
\* C3: for a valid hex INPUT and an -a value that is absent or is not exactly
\* a registered name, hash returns the error "Invalid algorithm", invokes no
\* digest function and returns no output element.
C3_InvalidAlgorithm ==
    (/\ HashReturned
     /\ matches.INPUT # None
     /\ ValidHex(StripOnePrefix(matches.INPUT[1]))
     /\ (matches.a = None \/ ~IsRegistered(matches.a[1])))
    => /\ ret[1] = Err("Invalid algorithm")
       /\ ret[1].val = <<>>
       /\ called = None

C3_Witness ==
    /\ HashReturned
    /\ matches = [a |-> Some("MD5"), INPUT |-> Some(<<"0", "x", "0", "0">>)]
    /\ ret[1] = Err("Invalid algorithm")
    /\ called = None

\* ---------------------------------------------------------------------- C4
\* C4: decode strips exactly zero or one leading "0x" or "0X" and decodes the
\* rest as hex, either letter case; it fails if and only if the rest has odd
\* length or holds a character that is not a hex digit.
C4_DecodeStripsOnePrefix ==
    (scenario = "from_str" /\ hexParsed # None)
    => LET rest == StripOnePrefixAnyCase(text)
       IN IF ValidHex(rest)
          THEN hexParsed[1].ok /\ hexParsed[1].val = BytesOf(rest)
          ELSE ~hexParsed[1].ok

\* ---------------------------------------------------------------------- C5
\* C5: hex round trip: decoding the string encode(b) produces succeeds and
\* yields b, for every byte sequence b, the empty one included.
C5_RoundTrip ==
    (scenario = "encode" /\ parsedFrom = "encoded")
    => hexParsed[1].ok /\ hexParsed[1].val = data

C5_Witness ==
    /\ scenario = "encode" /\ parsedFrom = "encoded"
    /\ data = <<10, 171>>
    /\ hexStr = Some(<<"0", "x", "0", "a", "a", "b">>)
    /\ hexParsed = Some(Ok(<<10, 171>>))

\* ---------------------------------------------------------------------- C6
\* C6: encode(bytes) is "0x" followed by lowercase hex digits only, two per
\* byte in byte order, of length 2 + 2 * len(bytes); the empty sequence
\* encodes to "0x"; the string hash returns on success has the same form.
C6_EncodeFormat ==
    /\ (scenario = "encode" /\ hexStr # None)
       => /\ IsPrefixedHexOf(hexStr[1], data)
          /\ (data = <<>> => hexStr[1] = <<"0", "x">>)
    /\ (HashReturned /\ ret[1].ok)
       => /\ called # None
          /\ LET s == ret[1].val[1]
             IN /\ Len(s) = 2 + 2 * OutputSize(called[1])
                /\ SubSeq(s, 1, 2) = <<"0", "x">>
                /\ \A i \in 3..Len(s) : s[i] \in LowerHexDigits

C6_Witness ==
    /\ scenario = "encode"
    /\ data = <<255, 0>>
    /\ hexStr = Some(<<"0", "x", "f", "f", "0", "0">>)

\* ---------------------------------------------------------------------- C7
HasBadByte(s) == \E i \in 1..Len(s) : s[i] = BadByte

\* s without its final newline, if it ends with one
WithoutFinalNewline(s) ==
    IF Len(s) > 0 /\ s[Len(s)] = "\n" THEN SubSeq(s, 1, Len(s) - 1) ELSE s

\* s without the carriage return directly before each newline
RECURSIVE WithoutCrBeforeLf(_)
WithoutCrBeforeLf(s) ==
    IF Len(s) = 0 THEN <<>>
    ELSE IF Len(s) >= 2 /\ s[1] = "\r" /\ s[2] = "\n" THEN WithoutCrBeforeLf(Tail(s))
    ELSE <<s[1]>> \o WithoutCrBeforeLf(Tail(s))

InputStringReturned == scenario = "input_string" /\ ret # None

\* C7 as stated: a supplied INPUT is returned verbatim and standard input is
\* not read; otherwise the result is the text of standard input less one final
\* trailing newline and nothing else; an unreadable stream gives "Invalid input".
C7_OnlyFinalNewlineLost ==
    InputStringReturned
    => IF matches.INPUT # None
       THEN ret[1] = Ok(matches.INPUT[1]) /\ ~stdinRead
       ELSE /\ stdinRead
            /\ IF HasBadByte(stdin)
               THEN ret[1] = Err("Invalid input")
               ELSE ret[1] = Ok(WithoutFinalNewline(stdin))

\* C7 as amended: a supplied INPUT is returned verbatim and standard input is
\* not read; otherwise the result is the text of standard input less the
\* carriage return directly before each newline and less one final trailing
\* newline; an unreadable stream gives "Invalid input".
C7_LinesRejoined ==
    InputStringReturned
    => IF matches.INPUT # None
       THEN ret[1] = Ok(matches.INPUT[1]) /\ ~stdinRead
       ELSE /\ stdinRead
            /\ IF HasBadByte(stdin)
               THEN ret[1] = Err("Invalid input")
               ELSE ret[1] = Ok(WithoutFinalNewline(WithoutCrBeforeLf(stdin)))

C7_Witness ==
    /\ InputStringReturned
    /\ matches.INPUT = None
    /\ stdin = <<"6", "\r", "\n", "6">>
    /\ ret[1] = Ok(<<"6", "\n", "6">>)

\* ---------------------------------------------------------------------- C9
\* the dispatcher with one normalization step: at most one leading "0x" is
\* removed and the rest is hex-decoded; the later steps are those of hash
SingleStripHash(m, stream) ==
    LET r1 == input_string(m, stream) IN
    IF ~r1.ok THEN Err(r1.err)
    ELSE LET rest == StripOnePrefix(r1.val)
         IN IF ~ValidHex(rest) THEN Err("Convert failed")
            ELSE IF m.a = None \/ ~IsRegistered(m.a[1]) THEN Err("Invalid algorithm")
            ELSE Ok(<<<<"0", "x">> \o HexEncode(DigestNamed(m.a[1], BytesOf(rest)))>>)

\* C9: the dispatcher removes a single leading "0x", so that one normalization
\* step removing at most one leading "0x" before the hex decoding gives the
\* same result as hash, for every input and every algorithm.
C9_SingleStripEquivalent ==
    HashReturned => ret[1] = SingleStripHash(matches, stdin)

\* ---------------------------------------------------------------------- C8
ThreadReturned(t) == scenario = "threads" /\ pc[t] = "done"

\* what the invocations return: each the result of hash run alone
ResultsAsAlone ==
    \A t \in Threads : ThreadReturned(t) => tresult[t] = Some(hash(targs[t], stdin))

\* a step leaves an initialized registry cell as it is
RegistryReadOnly ==
    /\ rawOnce = "done" => (rawOnce' = "done" /\ raw' = raw)
    /\ algOnce = "done" => (algOnce' = "done" /\ algorithms' = algorithms)
    /\ helpOnce = "done" => (helpOnce' = "done" /\ help' = help)

\* C8: the registry is read-only once initialized, and hash invocations
\* running concurrently in any interleaving, racing on the lazy
\* initialization included, each return what they return when run alone.
C8_ConcurrentAsAlone == []ResultsAsAlone /\ [][RegistryReadOnly]_vars

C8_Witness ==
    /\ \A t \in Threads : ThreadReturned(t)
    /\ tresult[1] = Some(Ok(<<Md5OfAbc>>))
    /\ tlocal[1].back = "l104"
    /\ tresult[2] = Some(Err("Invalid algorithm"))
    /\ targs[2].a = Some("unknown_algo")

\* --------------------------------------------------------------------- C10
\* the "name: help" lines of the descriptors from the i-th on, in order
RECURSIVE HelpLinesFrom(_, _)
HelpLinesFrom(seq, i) ==
    IF i > Len(seq) THEN ""
    ELSE seq[i].name \o ": " \o seq[i].help
         \o (IF i < Len(seq) THEN "\n" ELSE "") \o HelpLinesFrom(seq, i + 1)

\* C10: names are unique across the descriptor sequence, the map has one
\* entry per descriptor (17), a lookup of a name returns the descriptor of the
\* sequence carrying that name, and the help text lists "name: help" lines in
\* the order of the sequence.
C10_RegistryInvariant ==
    /\ rawOnce = "done"
       => /\ Len(raw) = 17
          /\ \A i, j \in 1..Len(raw) : raw[i].name = raw[j].name => i = j
    /\ algOnce = "done"
       => /\ Cardinality(DOMAIN algorithms) = 17
          /\ \A i \in 1..Len(raw) :
                /\ raw[i].name \in DOMAIN algorithms
                /\ algorithms[raw[i].name] = raw[i]
          /\ \A n \in DOMAIN algorithms : algorithms[n].name = n
    /\ helpOnce = "done"
       => help = "Hash algorithm\n" \o HelpLinesFrom(raw, 1)

C10_Witness ==
    /\ scenario = "threads"
    /\ algOnce = "done" /\ helpOnce = "done"
    /\ MapGet(algorithms, "ripemd_160") = Some(raw[17])
    /\ \E t \in Threads : tlocal[t].a = Some(raw[1])

====
